---- MODULE Spec2Model ----
(***************************************************************************)
(* Model of the stage controller: the Stage serial driver                  *)
(* (src/src/model/stage.py) and the homing Controller                      *)
(* (src/src/controller/controller.py).                                     *)
(*                                                                         *)
(* Text is a sequence of one-character strings.  Currents are integers in  *)
(* milliamperes; amps_per_step is the fraction num/den of milliamperes.    *)
(* A thread's position inside _send_command / _send_query is pc[t]; the    *)
(* position of the main thread inside Controller.home is hpc (the source   *)
(* line about to run).                                                     *)
(***************************************************************************)
EXTENDS Integers, Sequences, FiniteSets, TLC

VARIABLES
  ser,                       \* Stage.ser: 0 is None, h > 0 is the h-th serial handle created
  is_open,                   \* is_open[h]: serial.Serial.is_open of handle h
  lock,                      \* Stage._lock: 0 free, else the thread holding it
  controller_current_range,  \* Stage.controller_current_range, mA
  amps_per_step,             \* Stage.amps_per_step, the fraction num/den mA
  motor_max_current,         \* Stage.motor_max_current, mA
  pc,                        \* pc[t]: where thread t is inside the transport
  cur,                       \* cur[t]: the command or query thread t is sending
  meth,                      \* meth[t]: the Stage method thread t is inside (or raw)
  ret,                       \* ret[t]: how the last call of thread t ended
  trace,                     \* trace[t]: transport calls made by thread t's current call
  homed,                     \* Controller.homed
  hpc,                       \* line of Controller.home the main thread is at
  hwait,                     \* home is waiting for the Stage method it called
  hmotor, hspeed, input2,    \* home's locals: motor, speed, input2
  intrAt,                    \* line of home at which the user interrupt arrived
  hexit,                     \* how the last home() call ended
  hcalls                     \* number of home() calls started

vars == <<ser, is_open, lock, controller_current_range, amps_per_step,
          motor_max_current, pc, cur, meth, ret, trace, homed, hpc, hwait,
          hmotor, hspeed, input2, intrAt, hexit, hcalls>>

stageVars == <<controller_current_range, amps_per_step, motor_max_current>>
connVars == <<ser, is_open>>
homeVars == <<homed, hpc, hwait, hmotor, hspeed, input2, intrAt, hexit, hcalls>>

Threads == {1, 2}
Main == CHOOSE t \in Threads : \A u \in Threads : t <= u

\* ------------------------------------------------------------------ bounds
MaxOpens == 2        \* serial handles created over one behaviour

\* ------------------------------------------------------- program constants
CONTROLLER_CURRENT_RANGE == 2000
LOW_CURRENT_RANGE == 1000
CONTROLLER_MAX_CURRENT_VALUE == 31
MAX_MOTOR_POSITION == 2147000000
term_char == "\r"

\* -------------------------------------------------------------------- text
Digit == <<"0", "1", "2", "3", "4", "5", "6", "7", "8", "9">>

RECURSIVE NatStr(_)
NatStr(n) ==
  IF n < 10 THEN <<Digit[n + 1]>>
  ELSE NatStr(n \div 10) \o <<Digit[(n % 10) + 1]>>

\* str(n) of a Python int, as an f-string formats it
IntStr(n) == IF n < 0 THEN <<"-">> \o NatStr(-n) ELSE NatStr(n)

IsDigit(c) == \E i \in 1..10 : Digit[i] = c
DigitVal(c) == (CHOOSE i \in 1..10 : Digit[i] = c) - 1

IsSpace(c) == c \in {" ", "\t", "\n", "\r"}

RECURSIVE LStrip(_)
LStrip(s) == IF s # <<>> /\ IsSpace(Head(s)) THEN LStrip(Tail(s)) ELSE s

RECURSIVE RStrip(_)
RStrip(s) ==
  IF s # <<>> /\ IsSpace(s[Len(s)]) THEN RStrip(SubSeq(s, 1, Len(s) - 1)) ELSE s

\* str.strip()
Strip(s) == RStrip(LStrip(s))

StartsWith(s, p) == Len(p) <= Len(s) /\ SubSeq(s, 1, Len(p)) = p

\* s.endswith(term_char)
EndsWithTerm(s) == s # <<>> /\ s[Len(s)] = term_char

\* str.replace(old, ''): every non-overlapping occurrence, left to right
RECURSIVE Replace(_, _)
Replace(s, old) ==
  IF s = <<>> \/ old = <<>> THEN s
  ELSE IF StartsWith(s, old) THEN Replace(SubSeq(s, Len(old) + 1, Len(s)), old)
  ELSE <<Head(s)>> \o Replace(Tail(s), old)

RECURSIVE DigitsVal(_)
DigitsVal(s) ==
  IF s = <<>> THEN 0 ELSE 10 * DigitsVal(SubSeq(s, 1, Len(s) - 1)) + DigitVal(s[Len(s)])

AllDigits(s) == s # <<>> /\ \A i \in 1..Len(s) : IsDigit(s[i])

\* int(s): the text is stripped, takes an optional sign, then needs digits
IntOk(s) ==
  LET u == Strip(s) IN
    IF u # <<>> /\ Head(u) \in {"-", "+"} THEN AllDigits(Tail(u)) ELSE AllDigits(u)

IntVal(s) ==
  LET u == Strip(s) IN
    IF Head(u) = "-" THEN 0 - DigitsVal(Tail(u))
    ELSE IF Head(u) = "+" THEN DigitsVal(Tail(u))
    ELSE DigitsVal(u)

\* f':{motor}{opcode}{value}'
Fmt(motor, opcode, value) == <<":">> \o IntStr(motor) \o <<opcode>> \o value

\* --------------------------------------------------------- call outcomes
\* A call of a Stage method m with its motor argument, up to four integer
\* arguments and a string argument.
Call(m, motor, a, b, c, d, s) ==
  [m |-> m, motor |-> motor, a |-> a, b |-> b, c |-> c, d |-> d, s |-> s]
NoCall == Call("none", 0, 0, 0, 0, 0, "")
RawCall == Call("raw", 0, 0, 0, 0, 0, "")
NoSend == [kind |-> "none", text |-> <<>>]
\* How a call ended: the exception raised ("none": it returned) and the value
\* returned, an int n, a text s or a list of ints l according to kind.
Outcome(exc, kind, n, s, l) == [exc |-> exc, kind |-> kind, n |-> n, s |-> s, l |-> l]
NoRet == Outcome("pending", "none", 0, <<>>, <<>>)
Raised(exc) == Outcome(exc, "none", 0, <<>>, <<>>)
Returned(kind, n, s) == Outcome("none", kind, n, s, <<>>)
ReturnedList(kind, l) == Outcome("none", kind, 0, <<>>, l)

Ev(op, text, ok) == [op |-> op, text |-> text, ok |-> ok]

\* ------------------------------------------------------------------- Init
\* Stage.__init__: low_current_range picks 1.0 A, amps_per_step is derived once,
\* and a com_port given opens the connection (which may fail).
StageInit(max_current, low_current_range, connected) ==
  /\ lock = 0
  /\ motor_max_current = max_current
  /\ controller_current_range =
       IF low_current_range THEN LOW_CURRENT_RANGE ELSE CONTROLLER_CURRENT_RANGE
  /\ amps_per_step =
       [num |-> IF low_current_range THEN LOW_CURRENT_RANGE ELSE CONTROLLER_CURRENT_RANGE,
        den |-> CONTROLLER_MAX_CURRENT_VALUE]
  /\ ser = IF connected THEN 1 ELSE 0
  /\ is_open = IF connected THEN <<TRUE>> ELSE <<>>

\* Controller.__init__
ControllerInit ==
  /\ homed = FALSE
  /\ hpc = "idle"
  /\ hwait = FALSE
  /\ hmotor = 0
  /\ hspeed = [given |-> FALSE, v |-> 0]
  /\ input2 = 0
  /\ intrAt = "none"
  /\ hexit = "none"
  /\ hcalls = 0

ThreadsInit ==
  /\ pc = [t \in Threads |-> "idle"]
  /\ cur = [t \in Threads |-> NoSend]
  /\ meth = [t \in Threads |-> NoCall]
  /\ ret = [t \in Threads |-> NoRet]
  /\ trace = [t \in Threads |-> <<>>]

\* ------------------------------------------------------------- transport
\* A call ends: a raw _send_* call returns to its caller, a call made by a Stage
\* method returns into that method (pc "sent").
Complete(t, outcome) ==
  /\ pc' = [pc EXCEPT ![t] = IF meth[t].m = "raw" THEN "idle" ELSE "sent"]
  /\ ret' = [ret EXCEPT ![t] = outcome]

\* the handle self.ser refers to exists and is open
Connected == ser # 0 /\ is_open[ser]

NotConnected_NoneOnly == ser = 0

\* not self.ser or not self.ser.is_open
NotConnected == ser = 0 \/ ~is_open[ser]

\* if not self.ser or not self.ser.is_open: raise RuntimeError(...)
\* if not command.endswith(self._term_char): command += self._term_char
IsOpenCheck(t) ==
  /\ pc[t] = "check"
  /\ IF NotConnected
       THEN /\ Complete(t, Raised("RuntimeError"))
            /\ UNCHANGED cur
       ELSE /\ pc' = [pc EXCEPT ![t] = "lock"]
            /\ cur' = [cur EXCEPT ![t].text =
                 IF EndsWithTerm(@) THEN @ ELSE @ \o <<term_char>>]
            /\ UNCHANGED ret
  /\ UNCHANGED <<connVars, lock, stageVars, meth, trace, homeVars>>

LockFree_Ignored(t) == TRUE

\* the lock can be taken
LockFree(t) == lock = 0

\* with self._lock:
Acquire(t) ==
  /\ pc[t] = "lock"
  /\ LockFree(t)
  /\ lock' = t
  /\ pc' = [pc EXCEPT ![t] = IF cur[t].kind = "query" THEN "reset" ELSE "write"]
  /\ UNCHANGED <<connVars, stageVars, cur, meth, ret, trace, homeVars>>

\* What a call on self.ser raises before it reaches the port: None has no such
\* attribute, a closed handle raises the port-not-open SerialException.
HandleError == IF ser = 0 THEN "AttributeError" ELSE "SerialException"

\* self.ser.reset_input_buffer(), inside the query's try
ResetInput(t) ==
  /\ pc[t] = "reset"
  /\ \/ /\ Connected
        /\ trace' = [trace EXCEPT ![t] = Append(@, Ev("reset", <<>>, TRUE))]
        /\ pc' = [pc EXCEPT ![t] = "write"]
        /\ UNCHANGED <<lock, ret>>
     \/ /\ Connected
        /\ trace' = [trace EXCEPT ![t] = Append(@, Ev("reset", <<>>, FALSE))]
        /\ lock' = 0
        /\ Complete(t, Raised("SerialException"))
     \/ /\ ~Connected
        /\ lock' = 0
        /\ Complete(t, Raised(HandleError))
        /\ UNCHANGED trace
  /\ UNCHANGED <<connVars, stageVars, cur, meth, homeVars>>

\* except Exception as e: raise ConnectionError(...)   (_send_command)
CommandWriteError(e) == "ConnectionError"

\* except Exception as e: print(...); raise            (_send_query)
QueryWriteError(e) == e

WriteError(t, e) ==
  IF cur[t].kind = "command" THEN CommandWriteError(e) ELSE QueryWriteError(e)

\* self.ser.write(command.encode('ascii')): the write succeeds, or fails or times
\* out (SerialException); the lock is released when the with block is left.
Write(t) ==
  /\ pc[t] = "write"
  /\ \/ /\ Connected
        /\ trace' = [trace EXCEPT ![t] = Append(@, Ev("write", cur[t].text, TRUE))]
        /\ IF cur[t].kind = "query"
             THEN /\ pc' = [pc EXCEPT ![t] = "read"]
                  /\ UNCHANGED <<lock, ret>>
             ELSE /\ lock' = 0
                  /\ Complete(t, Returned("none", 0, <<>>))
     \/ /\ Connected
        /\ trace' = [trace EXCEPT ![t] = Append(@, Ev("write", cur[t].text, FALSE))]
        /\ lock' = 0
        /\ Complete(t, Raised(WriteError(t, "SerialException")))
     \/ /\ ~Connected
        /\ lock' = 0
        /\ Complete(t, Raised(WriteError(t, HandleError)))
        /\ UNCHANGED trace
  /\ UNCHANGED <<connVars, stageVars, cur, meth, homeVars>>

\* What the device may answer to a query (the bytes read_until returns): the
\* payload with or without the echoed query, terminated; or, on a read timeout,
\* what had arrived.
Payloads(t) ==
  CASE meth[t].m = "raw" -> {<<"7">>}
    [] meth[t].m = "getIdxStates" ->
         {<<"0", "1", "0", "0", "0">>, <<"0", "0", "0", "0", "0">>}
    [] meth[t].m = "getNVVelocity" -> {<<"1", "0", "0", "0">>, <<"5", "0", "0">>}
    [] OTHER -> {<<"1", "2", "3", "4", "5">>, <<"1">>, <<"-", "7">>, <<"!">>}

\* what read_until returns when the read timeout expires before a terminator
\* arrived: nothing, or the part received so far
TimedOut(t) ==
  LET query == Strip(cur[t].text) IN
    {<<>>, SubSeq(query, 1, 2)} \cup {query \o <<p[1]>> : p \in Payloads(t)}

Responses(t) ==
  LET query == Strip(cur[t].text) IN
    {query \o p \o <<term_char>> : p \in Payloads(t)}
      \cup {p \o <<term_char>> : p \in Payloads(t)} \cup TimedOut(t)

\* self.ser.read_until(b'\r').decode('ascii').strip()
readline(raw) == Strip(raw)

\* a read that raises when the timeout expired before a terminator arrived
ReadReturns_RaisesOnTimeout(t, raw) ==
  /\ trace' = [trace EXCEPT ![t] = Append(@, Ev("read", <<>>, TRUE))]
  /\ Complete(t, IF raw \in TimedOut(t) THEN Raised("TimeoutError")
                 ELSE Returned("str", 0, readline(raw)))
\* read_until returned raw, complete or timed out: _readline returns it
\* decoded and stripped, and _send_query returns that
ReadReturns(t, raw) ==
  /\ trace' = [trace EXCEPT ![t] = Append(@, Ev("read", <<>>, TRUE))]
  /\ Complete(t, Returned("str", 0, readline(raw)))

\* response = self._readline(); return response
Read(t) ==
  /\ pc[t] = "read"
  /\ \/ /\ Connected
        /\ \E raw \in Responses(t) : ReadReturns(t, raw)
     \/ /\ Connected
        /\ trace' = [trace EXCEPT ![t] = Append(@, Ev("read", <<>>, FALSE))]
        /\ Complete(t, Raised("SerialException"))
     \/ /\ ~Connected
        /\ Complete(t, Raised(IF ser = 0 THEN "RuntimeError" ELSE "SerialException"))
        /\ UNCHANGED trace
  /\ lock' = 0
  /\ UNCHANGED <<connVars, stageVars, cur, meth, homeVars>>

Transport(t) ==
  \/ IsOpenCheck(t)
  \/ Acquire(t)
  \/ ResetInput(t)
  \/ Write(t)
  \/ Read(t)

\* ---------------------------------------------------------- Stage methods
\* What a Stage method does before it reaches the transport: it raises, or it
\* hands a command or a query to _send_command / _send_query.  parse names how
\* the method decodes the response.
Raise(exc) == [exc |-> exc, kind |-> "none", text |-> <<>>, parse |-> "none"]
Cmd(text) == [exc |-> "none", kind |-> "command", text |-> text, parse |-> "none"]
Qry(text, parse) == [exc |-> "none", kind |-> "query", text |-> text, parse |-> parse]

\* Stage._check_motor_input: the motor value passes
check_motor_input(value) == value \in {0, 1, 2}

SET_POINTS == 0..9
BAUD_RATES == {9600, 19200, 38400, 57600, 115200}
QUADRATURE_COUNTS ==
  {192, 276, 400, 500, 768, 800, 1000, 1024, 1536, 1600, 2000, 2048, 3200, 4000,
   4096, 8192}
ADDRESS_LETTERS == {"A", "B", "C", "D", "E", "F"}

\* a setter ':{motor}{opcode}{value}' whose value must lie in lo..hi
RangedSetter(motor, opcode, value, lo, hi) ==
  IF ~check_motor_input(motor) THEN Raise("ValueError")
  ELSE IF ~(lo <= value /\ value <= hi) THEN Raise("ValueError")
  ELSE Cmd(Fmt(motor, opcode, IntStr(value)))

\* a setter ':{motor}{opcode}{value}' that takes any int
FreeSetter(motor, opcode, value) ==
  IF ~check_motor_input(motor) THEN Raise("ValueError")
  ELSE Cmd(Fmt(motor, opcode, IntStr(value)))

\* a getter ':{motor}{opcode}' that checks the motor
CheckedGetter(motor, opcode, parse) ==
  IF ~check_motor_input(motor) THEN Raise("ValueError")
  ELSE Qry(Fmt(motor, opcode, <<>>), parse)

setNVAccel(motor, value) == RangedSetter(motor, "A", value, 0, 65535)
setNVSpeed(motor, value) == RangedSetter(motor, "S", value, 0, 65535)

editSetPoint(motor, set_point, position, velocity, acceleration) ==
  IF ~check_motor_input(motor) THEN Raise("ValueError")
  ELSE IF set_point \notin SET_POINTS THEN Raise("ValueError")
  ELSE IF ~(0 - MAX_MOTOR_POSITION <= position /\ position <= MAX_MOTOR_POSITION)
    THEN Raise("ValueError")
  ELSE IF ~(0 <= velocity /\ velocity <= 65535) THEN Raise("ValueError")
  ELSE IF ~(0 <= acceleration /\ acceleration <= 65535) THEN Raise("ValueError")
  ELSE Cmd(<<":">> \o IntStr(motor) \o IntStr(set_point) \o IntStr(position)
             \o <<",">> \o IntStr(velocity) \o <<",">> \o IntStr(acceleration))

gotoSetPoint(motor, set_point) ==
  IF ~check_motor_input(motor) THEN Raise("ValueError")
  ELSE IF set_point \notin SET_POINTS THEN Raise("ValueError")
  ELSE Cmd(Fmt(motor, "d", IntStr(set_point)))

halt(motor, value) ==
  IF ~check_motor_input(motor) THEN Raise("ValueError")
  ELSE IF value \notin {1, 2} THEN Raise("ValueError")
  ELSE Cmd(Fmt(motor, "h", IntStr(value)))

\* if not 2 <= microsteps < 256: raise ValueError
setMSteps(motor, microsteps) ==
  IF ~check_motor_input(motor) THEN Raise("ValueError")
  ELSE IF ~(2 <= microsteps /\ microsteps < 256) THEN Raise("ValueError")
  ELSE Cmd(Fmt(motor, "M", IntStr(microsteps)))

\* a comparison that keeps the case
Upper_KeepsCase(s) == s
\* str.upper() of the direction strings the model draws
Upper(s) ==
  CASE s = "cw" -> "CW"
    [] s = "ccw" -> "CCW"
    [] s = "Ccw" -> "CCW"
    [] s = "up" -> "UP"
    [] OTHER -> s

setDirection(motor, direction) ==
  IF ~check_motor_input(motor) THEN Raise("ValueError")
  ELSE IF Upper(direction) = "CW" THEN Cmd(Fmt(motor, "C", IntStr(0)))
  ELSE IF Upper(direction) = "CCW" THEN Cmd(Fmt(motor, "C", IntStr(1)))
  ELSE Raise("ValueError")

setAccel(motor, value) == RangedSetter(motor, "a", value, 0, 65535)
setSpeed(motor, value) == RangedSetter(motor, "s", value, 0, 65535)
setVelocity(motor, value) == RangedSetter(motor, "v", value, 0, 65535)
setLoadError(motor, value) == FreeSetter(motor, "L", value)
jog(motor, steps) == FreeSetter(motor, "j", steps)
gotoPos(motor, position) ==
  RangedSetter(motor, "p", position, 0 - MAX_MOTOR_POSITION, MAX_MOTOR_POSITION)
\* position is drawn from whole degrees, which format as an int does
gotoAbsPos(motor, position) == RangedSetter(motor, "x", position, 0, 360)
setZero(motor) ==
  IF ~check_motor_input(motor) THEN Raise("ValueError") ELSE Cmd(Fmt(motor, "F", <<>>))

setCurrRange(motor, value) ==
  IF ~check_motor_input(motor) THEN Raise("ValueError")
  ELSE IF value \notin {0, 1} THEN Raise("ValueError")
  ELSE Cmd(Fmt(motor, "O", IntStr(value)))

\* int(x / y) of two non-negative floats x = a (mA), y = num/den (mA)
FloorQuot(a, step) == (a * step.den) \div step.num

\* round(x / y): Python rounds a tie to the even neighbour
RoundQuot(a, step) ==
  LET n == a * step.den
      q == n \div step.num
      r2 == 2 * (n % step.num)
  IN IF r2 < step.num THEN q
     ELSE IF r2 > step.num THEN q + 1
     ELSE IF q % 2 = 0 THEN q ELSE q + 1

Min(S) == CHOOSE x \in S : \A y \in S : x <= y
Max(S) == CHOOSE x \in S : \A y \in S : x >= y

CurrentValue_NoMotorClamp(amps) ==
  Max({0, Min({RoundQuot(amps, amps_per_step), CONTROLLER_MAX_CURRENT_VALUE})})

\* value = max(0, min(round(amps / amps_per_step), int(motor_max_current /
\* amps_per_step), CONTROLLER_MAX_CURRENT_VALUE))
CurrentValue(amps) ==
  Max({0, Min({RoundQuot(amps, amps_per_step),
               FloorQuot(motor_max_current, amps_per_step),
               CONTROLLER_MAX_CURRENT_VALUE})})

\* if amps > self.motor_max_current: raise ValueError
OverMotorMax(amps) == amps > motor_max_current

CurrentSetter(motor, opcode, amps) ==
  IF ~check_motor_input(motor) THEN Raise("ValueError")
  ELSE IF amps < 0 THEN Raise("ValueError")
  ELSE IF OverMotorMax(amps) THEN Raise("ValueError")
  ELSE Cmd(Fmt(motor, opcode, IntStr(CurrentValue(amps))))

setHoldingCurr(motor, amps) == CurrentSetter(motor, "H", amps)
setRunCurr(motor, amps) == CurrentSetter(motor, "R", amps)

initMotor(motor) ==
  IF ~check_motor_input(motor) THEN Raise("ValueError")
  ELSE Cmd(Fmt(motor, "i", IntStr(1)))

setOutput(motor, output, state) ==
  IF ~check_motor_input(motor) THEN Raise("ValueError")
  ELSE IF output \notin {1, 2} THEN Raise("ValueError")
  ELSE IF state \notin {0, 1} THEN Raise("ValueError")
  ELSE Cmd(Fmt(motor, IF output = 1 THEN "o" ELSE "n", IntStr(state)))

setEncoderCPR(motor, value) ==
  IF ~check_motor_input(motor) THEN Raise("ValueError")
  ELSE IF value \notin QUADRATURE_COUNTS THEN Raise("ValueError")
  ELSE Cmd(Fmt(motor, "E", IntStr(value)))

setOutputConfig(motor, input, value) ==
  IF ~check_motor_input(motor) THEN Raise("ValueError")
  ELSE IF input \notin {1, 2} THEN Raise("ValueError")
  ELSE IF value \notin {0, 1, 2, 3} THEN Raise("ValueError")
  ELSE Cmd(Fmt(motor, IF input = 1 THEN "J" ELSE "K", IntStr(value)))

InputOpcode(input) == <<"T", "U", "V", "W">>[input]

setInputConfig(motor, input, value) ==
  IF ~check_motor_input(motor) THEN Raise("ValueError")
  ELSE IF input \notin {1, 2, 3, 4} THEN Raise("ValueError")
  ELSE IF value \notin {0, 1, 2, 3} THEN Raise("ValueError")
  ELSE Cmd(Fmt(motor, InputOpcode(input), IntStr(value)))

setIdxConfig(motor, value) ==
  IF ~check_motor_input(motor) THEN Raise("ValueError")
  ELSE IF value \notin {0, 1, 2, 3} THEN Raise("ValueError")
  ELSE Cmd(Fmt(motor, "Z", IntStr(value)))

setHomingLoadError_FromZero(motor, value) == RangedSetter(motor, "I", value, 0, 65535)

setHomingLoadError(motor, value) == RangedSetter(motor, "I", value, 1, 65535)
setHome(motor, position) ==
  RangedSetter(motor, "c", position, 0 - MAX_MOTOR_POSITION, MAX_MOTOR_POSITION)

\* a table with two codes exchanged
BaudCode_Exchanged(baud) ==
  CASE baud = 9600 -> 1
    [] baud = 19200 -> 2
    [] baud = 38400 -> 4
    [] baud = 57600 -> 3
    [] baud = 115200 -> 5
    [] OTHER -> 0
\* match baud: case 9600: value = 1 ... case _: raise ValueError (0 here)
BaudCode(baud) ==
  CASE baud = 9600 -> 1
    [] baud = 19200 -> 2
    [] baud = 38400 -> 3
    [] baud = 57600 -> 4
    [] baud = 115200 -> 5
    [] OTHER -> 0

setBaud(motor, baud) ==
  IF ~check_motor_input(motor) THEN Raise("ValueError")
  ELSE IF BaudCode(baud) = 0 THEN Raise("ValueError")
  ELSE Cmd(Fmt(motor, "B", IntStr(BaudCode(baud))))

\* value is an int (letter = "") or a one-letter string
setAddress(motor, value, letter) ==
  IF ~check_motor_input(motor) THEN Raise("ValueError")
  ELSE IF letter = "" /\ value \notin 0..9 THEN Raise("ValueError")
  ELSE IF letter # "" /\ letter \notin ADDRESS_LETTERS THEN Raise("ValueError")
  ELSE Cmd(Fmt(motor, "D", IF letter = "" THEN IntStr(value) ELSE <<letter>>))

getNVAccel(motor) == CheckedGetter(motor, "A", "int")
getNVVelocity(motor) == CheckedGetter(motor, "v", "int")
\* no _check_motor_input call
getNVSpeed(motor) == Qry(Fmt(motor, "S", <<>>), "int")
getSetPoint(motor, set_point) ==
  IF ~check_motor_input(motor) THEN Raise("ValueError")
  ELSE IF set_point \notin SET_POINTS THEN Raise("ValueError")
  ELSE Qry(<<":">> \o IntStr(motor) \o IntStr(set_point), "setpoint")
getMSteps(motor) == CheckedGetter(motor, "M", "int")
getDirection(motor) == CheckedGetter(motor, "C", "direction")
getAccel(motor) == CheckedGetter(motor, "a", "int")
getSpeed(motor) == CheckedGetter(motor, "s", "int")
getLoadError(motor) == CheckedGetter(motor, "L", "int")
getRPM(motor) == CheckedGetter(motor, "u", "rpm")
getPos(motor) == CheckedGetter(motor, "p", "int")
getAbsPos(motor) == CheckedGetter(motor, "x", "abspos")
getEncoderPos(motor) == CheckedGetter(motor, "y", "int")
getFollowingError(motor) == CheckedGetter(motor, "b", "int")
getCurrRange(motor) == CheckedGetter(motor, "O", "int")
getHoldingCurr(motor) == CheckedGetter(motor, "H", "current")
getRunCurr(motor) == CheckedGetter(motor, "R", "current")
getInputConfig(motor, input) ==
  IF ~check_motor_input(motor) THEN Raise("ValueError")
  ELSE IF input \notin {1, 2, 3, 4} THEN Raise("ValueError")
  ELSE Qry(Fmt(motor, InputOpcode(input), <<>>), "int")
getOutputConfig(motor, output) ==
  IF ~check_motor_input(motor) THEN Raise("ValueError")
  ELSE IF output \notin {1, 2} THEN Raise("ValueError")
  ELSE Qry(Fmt(motor, IF output = 1 THEN "J" ELSE "K", <<>>), "int")
\* no _check_motor_input call
getIdxConfig(motor) == Qry(Fmt(motor, "Z", <<>>), "int")
getEncoderCPR(motor) == CheckedGetter(motor, "E", "int")
getHomingLoadError(motor) == CheckedGetter(motor, "I", "int")
getSoftwareRev(motor) == CheckedGetter(motor, "z", "str")
getBaud(motor) == CheckedGetter(motor, "B", "baud")
getAddresses == Qry(<<":", "0", "D">>, "str")
getIdxStates(motor) == CheckedGetter(motor, "l", "list")
getOutputStatus(motor, output) ==
  IF ~check_motor_input(motor) THEN Raise("ValueError")
  ELSE IF output \notin {1, 2} THEN Raise("ValueError")
  ELSE Qry(Fmt(motor, IF output = 1 THEN "o" ELSE "n", <<>>), "int")
getStatus(motor) == CheckedGetter(motor, "f", "str")
getMotorStatus(motor) == CheckedGetter(motor, "g", "list")

\* the method of call c, applied to its arguments
Plan(c) ==
  CASE c.m = "setNVAccel" -> setNVAccel(c.motor, c.a)
    [] c.m = "setNVSpeed" -> setNVSpeed(c.motor, c.a)
    [] c.m = "editSetPoint" -> editSetPoint(c.motor, c.a, c.b, c.c, c.d)
    [] c.m = "gotoSetPoint" -> gotoSetPoint(c.motor, c.a)
    [] c.m = "halt" -> halt(c.motor, c.a)
    [] c.m = "setMSteps" -> setMSteps(c.motor, c.a)
    [] c.m = "setDirection" -> setDirection(c.motor, c.s)
    [] c.m = "setAccel" -> setAccel(c.motor, c.a)
    [] c.m = "setSpeed" -> setSpeed(c.motor, c.a)
    [] c.m = "setVelocity" -> setVelocity(c.motor, c.a)
    [] c.m = "setLoadError" -> setLoadError(c.motor, c.a)
    [] c.m = "jog" -> jog(c.motor, c.a)
    [] c.m = "gotoPos" -> gotoPos(c.motor, c.a)
    [] c.m = "gotoAbsPos" -> gotoAbsPos(c.motor, c.a)
    [] c.m = "setZero" -> setZero(c.motor)
    [] c.m = "setCurrRange" -> setCurrRange(c.motor, c.a)
    [] c.m = "setHoldingCurr" -> setHoldingCurr(c.motor, c.a)
    [] c.m = "setRunCurr" -> setRunCurr(c.motor, c.a)
    [] c.m = "initMotor" -> initMotor(c.motor)
    [] c.m = "setOutput" -> setOutput(c.motor, c.a, c.b)
    [] c.m = "setEncoderCPR" -> setEncoderCPR(c.motor, c.a)
    [] c.m = "setOutputConfig" -> setOutputConfig(c.motor, c.a, c.b)
    [] c.m = "setInputConfig" -> setInputConfig(c.motor, c.a, c.b)
    [] c.m = "setIdxConfig" -> setIdxConfig(c.motor, c.a)
    [] c.m = "setHomingLoadError" -> setHomingLoadError(c.motor, c.a)
    [] c.m = "setHome" -> setHome(c.motor, c.a)
    [] c.m = "setBaud" -> setBaud(c.motor, c.a)
    [] c.m = "setAddress" -> setAddress(c.motor, c.a, c.s)
    [] c.m = "getNVAccel" -> getNVAccel(c.motor)
    [] c.m = "getNVVelocity" -> getNVVelocity(c.motor)
    [] c.m = "getNVSpeed" -> getNVSpeed(c.motor)
    [] c.m = "getSetPoint" -> getSetPoint(c.motor, c.a)
    [] c.m = "getMSteps" -> getMSteps(c.motor)
    [] c.m = "getDirection" -> getDirection(c.motor)
    [] c.m = "getAccel" -> getAccel(c.motor)
    [] c.m = "getSpeed" -> getSpeed(c.motor)
    [] c.m = "getLoadError" -> getLoadError(c.motor)
    [] c.m = "getRPM" -> getRPM(c.motor)
    [] c.m = "getPos" -> getPos(c.motor)
    [] c.m = "getAbsPos" -> getAbsPos(c.motor)
    [] c.m = "getEncoderPos" -> getEncoderPos(c.motor)
    [] c.m = "getFollowingError" -> getFollowingError(c.motor)
    [] c.m = "getCurrRange" -> getCurrRange(c.motor)
    [] c.m = "getHoldingCurr" -> getHoldingCurr(c.motor)
    [] c.m = "getRunCurr" -> getRunCurr(c.motor)
    [] c.m = "getInputConfig" -> getInputConfig(c.motor, c.a)
    [] c.m = "getOutputConfig" -> getOutputConfig(c.motor, c.a)
    [] c.m = "getIdxConfig" -> getIdxConfig(c.motor)
    [] c.m = "getEncoderCPR" -> getEncoderCPR(c.motor)
    [] c.m = "getHomingLoadError" -> getHomingLoadError(c.motor)
    [] c.m = "getSoftwareRev" -> getSoftwareRev(c.motor)
    [] c.m = "getBaud" -> getBaud(c.motor)
    [] c.m = "getAddresses" -> getAddresses
    [] c.m = "getIdxStates" -> getIdxStates(c.motor)
    [] c.m = "getOutputStatus" -> getOutputStatus(c.motor, c.a)
    [] c.m = "getStatus" -> getStatus(c.motor)
    [] c.m = "getMotorStatus" -> getMotorStatus(c.motor)

\* ------------------------------------------------------ decoding responses
\* str.split(sep)
RECURSIVE Split(_, _)
Split(s, sep) ==
  IF \A i \in 1..Len(s) : s[i] # sep THEN <<s>>
  ELSE LET k == CHOOSE i \in 1..Len(s) : s[i] = sep /\ \A j \in 1..(i - 1) : s[j] # sep
       IN <<SubSeq(s, 1, k - 1)>> \o Split(SubSeq(s, k + 1, Len(s)), sep)

\* round(n / d) to the nearest integer, ties to even (n, d >= 0)
RoundDiv(n, d) ==
  LET q == n \div d
      r2 == 2 * (n % d)
  IN IF r2 < d THEN q ELSE IF r2 > d THEN q + 1 ELSE IF q % 2 = 0 THEN q ELSE q + 1

\* a parse that takes digits only
DecodeInt_Unsigned(r) ==
  IF AllDigits(r) THEN Returned("int", DigitsVal(r), <<>>) ELSE Raised("ValueError")
\* return int(response)
DecodeInt(r) == IF IntOk(r) THEN Returned("int", IntVal(r), <<>>) ELSE Raised("ValueError")

\* if response == '!': return float('nan'); return int(response) / scale
DecodeScaled(r, kind) ==
  IF r = <<"!">> THEN Returned("nan", 0, <<>>)
  ELSE IF IntOk(r) THEN Returned(kind, IntVal(r), <<>>)
  ELSE Raised("ValueError")

\* value = int(response); return round(value * self.amps_per_step, 3), in mA
DecodeCurrent(r) ==
  IF ~IntOk(r) THEN Raised("ValueError")
  ELSE IF IntVal(r) < 0
    THEN Returned("mA", 0 - RoundDiv((0 - IntVal(r)) * amps_per_step.num, amps_per_step.den), <<>>)
  ELSE Returned("mA", RoundDiv(IntVal(r) * amps_per_step.num, amps_per_step.den), <<>>)

\* return direction_map[response]
DecodeDirection(r) ==
  IF r = <<"0">> THEN Returned("str", 0, <<"C", "W">>)
  ELSE IF r = <<"1">> THEN Returned("str", 0, <<"C", "C", "W">>)
  ELSE Raised("KeyError")

\* return baud_map[response]
DecodeBaud(r) ==
  IF r = <<"0">> THEN Returned("None", 0, <<>>)
  ELSE IF Len(r) = 1 /\ r[1] \in {"1", "2", "3", "4", "5"}
    THEN Returned("int", CHOOSE b \in BAUD_RATES : BaudCode(b) = DigitVal(r[1]), <<>>)
  ELSE Raised("KeyError")

\* return [int(char) for char in response]
DecodeList(r) ==
  IF \A i \in 1..Len(r) : IsDigit(r[i])
    THEN ReturnedList("list", [i \in 1..Len(r) |-> DigitVal(r[i])])
  ELSE Raised("ValueError")

\* {'position': int(response.split(',')[0]), 'velocity': ...[1], 'accleration': ...[2]}
DecodeSetPoint(r) ==
  LET parts == Split(r, ",") IN
    IF ~IntOk(parts[1]) THEN Raised("ValueError")
    ELSE IF Len(parts) < 2 THEN Raised("IndexError")
    ELSE IF ~IntOk(parts[2]) THEN Raised("ValueError")
    ELSE IF Len(parts) < 3 THEN Raised("IndexError")
    ELSE IF ~IntOk(parts[3]) THEN Raised("ValueError")
    ELSE ReturnedList("dict", <<IntVal(parts[1]), IntVal(parts[2]), IntVal(parts[3])>>)

\* response = self._send_query(command).replace(command, ''), then the method's decoding
\* (r is bound to the value of the replaced response, computed once)
Decode(c, response) ==
  LET parse == Plan(c).parse
      decoded(r) ==
        CASE parse = "int" -> DecodeInt(r)
          [] parse = "rpm" -> DecodeScaled(r, "per100")
          [] parse = "abspos" -> DecodeScaled(r, "per10")
          [] parse = "current" -> DecodeCurrent(r)
          [] parse = "direction" -> DecodeDirection(r)
          [] parse = "baud" -> DecodeBaud(r)
          [] parse = "list" -> DecodeList(r)
          [] parse = "setpoint" -> DecodeSetPoint(r)
          [] OTHER -> Returned("str", 0, r)
  IN CHOOSE out \in {decoded(r) : r \in {Replace(response, Plan(c).text)}} : TRUE

\* ------------------------------------------------ threads calling the transport
RawCommands == {<<":", "1", "h", "1">>, <<":", "1", "h", "1", "\r">>}
RawQueries == {<<":", "1", "p">>}

StartSend(t, call, kind, text) ==
  /\ pc' = [pc EXCEPT ![t] = "check"]
  /\ cur' = [cur EXCEPT ![t] = [kind |-> kind, text |-> text]]
  /\ meth' = [meth EXCEPT ![t] = call]
  /\ ret' = [ret EXCEPT ![t] = NoRet]

\* a thread calls Stage._send_command(command)
send_command(t) ==
  /\ pc[t] = "idle"
  /\ \E command \in RawCommands : StartSend(t, RawCall, "command", command)
  /\ trace' = [trace EXCEPT ![t] = <<>>]
  /\ UNCHANGED <<connVars, lock, stageVars, homeVars>>

\* a thread calls Stage._send_query(query)
send_query(t) ==
  /\ pc[t] = "idle"
  /\ \E query \in RawQueries : StartSend(t, RawCall, "query", query)
  /\ trace' = [trace EXCEPT ![t] = <<>>]
  /\ UNCHANGED <<connVars, lock, stageVars, homeVars>>

\* the handles created by this Stage that are open
OpenHandles == {h \in 1..Len(is_open) : is_open[h]}

\* Stage.open_connection, serial.Serial(...) returned: self.ser = <new handle>;
\* the handle self.ser held before is not closed, only dropped
open_created(t) ==
  /\ pc[t] = "idle"
  /\ Len(is_open) < MaxOpens
  /\ is_open' = Append(is_open, TRUE)
  /\ ser' = Len(is_open) + 1
  /\ UNCHANGED <<lock, stageVars, pc, cur, meth, ret, trace, homeVars>>

\* Stage.open_connection, serial.Serial(...) raised: except Exception: print;
\* self.ser = None; the handle self.ser held before is not closed, only dropped
open_failed(t) ==
  /\ pc[t] = "idle"
  /\ ser' = 0
  /\ UNCHANGED <<is_open, lock, stageVars, pc, cur, meth, ret, trace, homeVars>>

\* a thread calls Stage.open_connection(port)
open_connection(t) == open_created(t) \/ open_failed(t)

\* A handle the Stage dropped without closing it is closed when the
\* interpreter finalizes the object (io.IOBase.__del__ calls close()): at once
\* under reference counting when nothing else refers to it, at an unspecified
\* later time or never otherwise.
Finalize ==
  /\ \E h \in OpenHandles :
       /\ h # ser
       /\ is_open' = [is_open EXCEPT ![h] = FALSE]
  /\ UNCHANGED <<ser, lock, stageVars, pc, cur, meth, ret, trace, homeVars>>

\* Stage.close_connection, first half: if self.ser and self.ser.is_open: self.ser.close()
close_connection(t) ==
  /\ pc[t] = "idle"
  /\ IF Connected
       THEN /\ is_open' = [is_open EXCEPT ![ser] = FALSE]
            /\ pc' = [pc EXCEPT ![t] = "close84"]
       ELSE UNCHANGED <<is_open, pc>>
  /\ UNCHANGED <<ser, lock, stageVars, cur, meth, ret, trace, homeVars>>

\* a second half that keeps the reference
close_release_KeepsHandle(t) ==
  /\ pc[t] = "close84"
  /\ pc' = [pc EXCEPT ![t] = "idle"]
  /\ UNCHANGED <<ser, is_open, lock, stageVars, cur, meth, ret, trace, homeVars>>
\* Stage.close_connection, second half: self.ser = None
close_release(t) ==
  /\ pc[t] = "close84"
  /\ ser' = 0
  /\ pc' = [pc EXCEPT ![t] = "idle"]
  /\ UNCHANGED <<is_open, lock, stageVars, cur, meth, ret, trace, homeVars>>

\* ------------------------------------------------- calling Stage methods
\* A thread calls a Stage method: the arguments are checked and the command is
\* built; a rejected call raises without reaching _send_command / _send_query.
StartCall(t, c) ==
  IF Plan(c).exc # "none"
    THEN /\ meth' = [meth EXCEPT ![t] = c]
         /\ ret' = [ret EXCEPT ![t] = Raised(Plan(c).exc)]
         /\ cur' = [cur EXCEPT ![t] = NoSend]
         /\ UNCHANGED pc
    ELSE StartSend(t, c, Plan(c).kind, Plan(c).text)

\* setCurrRange after self._send_command(command) returned:
\* self.controller_current_range = 2.0 if value == 0 else 1.0
RangeAfterSet(value) ==
  /\ controller_current_range' =
       IF value = 0 THEN CONTROLLER_CURRENT_RANGE ELSE LOW_CURRENT_RANGE
  /\ UNCHANGED <<amps_per_step, motor_max_current>>

\* a setCurrRange that goes on to its assignment although the send raised
RangeCommandSent_EvenIfFailed(t) == meth[t].m = "setCurrRange"
\* setCurrRange reaches the lines after self._send_command(command) only when
\* that call returned
RangeCommandSent(t) == ret[t].exc = "none" /\ meth[t].m = "setCurrRange"

\* _send_command / _send_query returned or raised into the Stage method: an
\* exception propagates, a setter returns None, a getter decodes the response.
MethodReturn(t) ==
  /\ pc[t] = "sent"
  /\ pc' = [pc EXCEPT ![t] = "idle"]
  /\ ret' = [ret EXCEPT ![t] =
       IF @.exc # "none" THEN @
       ELSE IF cur[t].kind = "command" THEN Returned("none", 0, <<>>)
       ELSE Decode(meth[t], @.s)]
  /\ IF RangeCommandSent(t)
       THEN RangeAfterSet(meth[t].a)
       ELSE UNCHANGED stageVars
  /\ UNCHANGED <<connVars, lock, cur, meth, trace, homeVars>>

AllMotors == {-1, 0, 1, 2, 3}

M1(m, a) == Call(m, 1, a, 0, 0, 0, "")
M2(m, a, b) == Call(m, 1, a, b, 0, 0, "")

\* one well-formed call of every method that takes a motor
DefaultCalls ==
  {M1(m, 100) : m \in {"setNVAccel", "setNVSpeed", "setAccel", "setSpeed", "setVelocity",
                       "setLoadError", "jog", "gotoPos", "gotoAbsPos", "setMSteps",
                       "setHomingLoadError", "setHome"}}
  \cup {M1(m, 1) : m \in {"gotoSetPoint", "halt", "setCurrRange", "setIdxConfig",
                          "getSetPoint", "getInputConfig", "getOutputConfig",
                          "getOutputStatus", "setAddress"}}
  \cup {M1(m, 0) : m \in {"setZero", "initMotor", "getNVAccel", "getNVVelocity",
                          "getNVSpeed", "getMSteps", "getDirection", "getAccel",
                          "getSpeed", "getLoadError", "getRPM", "getPos", "getAbsPos",
                          "getEncoderPos", "getFollowingError", "getCurrRange",
                          "getHoldingCurr", "getRunCurr", "getIdxConfig",
                          "getEncoderCPR", "getHomingLoadError", "getSoftwareRev",
                          "getBaud", "getIdxStates", "getStatus", "getMotorStatus"}}
  \cup {M2(m, 1, 1) : m \in {"setOutput", "setOutputConfig", "setInputConfig"}}
  \cup {M1("setHoldingCurr", 310), M1("setRunCurr", 310), M1("setEncoderCPR", 8192),
        M1("setBaud", 9600), Call("setDirection", 1, 0, 0, 0, 0, "CW"),
        Call("editSetPoint", 1, 1, 100, 100, 100, "")}

MotorCalls == {[c EXCEPT !.motor = motor] : c \in DefaultCalls, motor \in AllMotors}

\* the requested currents drawn, mA
AmpsChoices == {-1, 0, 16, 17, 500, 610, 620, 621, 630, 631, 2000, 2500, 2501}

\* calls on motor 1 at, and one step beyond, the ends of each parameter's range
ArgCalls ==
  {M1(m, v) : m \in {"setNVAccel", "setNVSpeed", "setAccel", "setSpeed", "setVelocity"},
              v \in {-1, 0, 65535, 65536}}
  \cup {M1("setHomingLoadError", v) : v \in {0, 1, 65535, 65536}}
  \cup {M1(m, v) : m \in {"gotoSetPoint", "getSetPoint"}, v \in {-1, 0, 9, 10}}
  \cup {Call("editSetPoint", 1, v, 100, 100, 100, "") : v \in {-1, 0, 9, 10}}
  \cup {Call("editSetPoint", 1, 1, 100, v, 100, "") : v \in {-1, 0, 65535, 65536}}
  \cup {Call("editSetPoint", 1, 1, 100, 100, v, "") : v \in {-1, 0, 65535, 65536}}
  \cup {M1("halt", v) : v \in {0, 1, 2, 3}}
  \cup {M1("setMSteps", v) : v \in {1, 2, 255, 256, 257}}
  \cup {M2("setOutput", v, 1) : v \in {0, 1, 2, 3}}
  \cup {M2("setOutput", 1, v) : v \in {-1, 0, 1, 2}}
  \cup {M2("setOutputConfig", v, 1) : v \in {0, 1, 2, 3}}
  \cup {M2("setOutputConfig", 1, v) : v \in {-1, 0, 3, 4}}
  \cup {M2("setInputConfig", v, 1) : v \in {0, 1, 4, 5}}
  \cup {M2("setInputConfig", 1, v) : v \in {-1, 0, 3, 4}}
  \cup {M1("setIdxConfig", v) : v \in {-1, 0, 3, 4}}
  \cup {M1("setCurrRange", v) : v \in {-1, 0, 1, 2}}
  \cup {M1(m, v) : m \in {"setHoldingCurr", "setRunCurr"}, v \in AmpsChoices}
  \cup {M1("setBaud", v) : v \in BAUD_RATES \cup {1200}}
  \cup {Call("setDirection", 1, 0, 0, 0, 0, d) : d \in {"CW", "CCW", "cw", "Ccw", "up", ""}}
  \cup {M1(m, v) : m \in {"gotoPos", "setHome"},
                   v \in {0 - MAX_MOTOR_POSITION - 1, 0 - MAX_MOTOR_POSITION,
                          MAX_MOTOR_POSITION, MAX_MOTOR_POSITION + 1}}
  \cup {M1("gotoAbsPos", v) : v \in {-1, 0, 360, 361}}
  \cup {M1("setEncoderCPR", v) : v \in {192, 193}}
  \cup {M1("setAddress", v) : v \in {-1, 0, 9, 10}}
  \cup {Call("setAddress", 1, 0, 0, 0, 0, l) : l \in {"A", "F", "G"}}
  \cup {M1(m, v) : m \in {"getInputConfig"}, v \in {0, 1, 4, 5}}
  \cup {M1(m, v) : m \in {"getOutputConfig", "getOutputStatus"}, v \in {0, 1, 2, 3}}
  \cup {Call("getAddresses", 0, 0, 0, 0, 0, "")}

ApiCalls == MotorCalls \cup ArgCalls

\* the main thread calls a Stage method
ApiCall(t) ==
  /\ pc[t] = "idle"
  /\ meth[t] = NoCall
  /\ \E c \in ApiCalls : StartCall(t, c)
  /\ trace' = [trace EXCEPT ![t] = <<>>]
  /\ UNCHANGED <<connVars, lock, stageVars, homeVars>>

\* the caller has taken the result of the call and goes on
Resume(t) ==
  /\ pc[t] = "idle"
  /\ meth[t] # NoCall
  /\ hpc = "idle"
  /\ cur' = [cur EXCEPT ![t] = NoSend]
  /\ meth' = [meth EXCEPT ![t] = NoCall]
  /\ ret' = [ret EXCEPT ![t] = NoRet]
  /\ trace' = [trace EXCEPT ![t] = <<>>]
  /\ UNCHANGED <<connVars, lock, stageVars, pc, homeVars>>

\* the motor maximum currents a Stage is built with, mA
MotorMaxChoices == {620, 630, 2500}

\* One thread calling the methods of a Stage built with any arguments.
InitApi ==
  /\ \E max_current \in MotorMaxChoices, low \in BOOLEAN, connected \in BOOLEAN :
       StageInit(max_current, low, connected)
  /\ ControllerInit
  /\ ThreadsInit

NextApi ==
  \/ ApiCall(Main)
  \/ Resume(Main)
  \/ MethodReturn(Main)
  \/ Transport(Main)

SpecApi == InitApi /\ [][NextApi]_vars

\* Threads sharing one Stage built with the default arguments.
Init ==
  /\ \E connected \in BOOLEAN : StageInit(620, TRUE, connected)
  /\ ControllerInit
  /\ ThreadsInit

Next ==
  \/ \E t \in Threads :
       \/ send_command(t)
       \/ send_query(t)
       \/ open_connection(t)
       \/ close_connection(t)
       \/ close_release(t)
       \/ Transport(t)
  \/ Finalize

Spec == Init /\ [][Next]_vars

\* ------------------------------------------------------- Controller.home
MaxPolls == 2        \* iterations of one polling loop of home()
MaxHomeCalls == 2    \* home() calls over one behaviour

\* the speed of home(): given tells whether the argument was passed, v is the
\* value of the local variable speed (0 standing for None while not given)
NoSpeed == [given |-> FALSE, v |-> 0]
Speed(v) == [given |-> TRUE, v |-> v]

\* the arguments home() is called with
HomeMotors == {1, 2, 3}
HomeSpeeds == {NoSpeed, Speed(0), Speed(500)}

\* lines 18..41, the body of the try
TryLines == {"h18", "h19", "h20", "h21", "h23", "h24", "h25", "h26", "h28", "h29",
             "h31", "h32", "h33", "h34", "h35", "h36", "h38", "h39", "h40", "h41"}
SeekLoopLines == {"h24", "h25", "h26", "h28"}
BackOffLoopLines == {"h34", "h35", "h36", "h38"}
HomeCallLines == {"h18", "h19", "h20", "h21", "h23", "h25", "h26", "h29", "h32",
                  "h33", "h35", "h36", "h39", "h45"}

\* a line 39 that zeroes the position without the init command
InitCall_SetZero == Call("setZero", hmotor, 0, 0, 0, 0, "")
\* line 39, the input read inactive: self.s.initMotor(motor)
InitCall == Call("initMotor", hmotor, 0, 0, 0, 0, "")

\* a line 29 that reads the position and sends no halt
LimitFoundCall_NoHalt == Call("getPos", hmotor, 0, 0, 0, 0, "")
\* line 29, the input read active: self.s.halt(motor)
LimitFoundCall == Call("halt", hmotor, 1, 0, 0, 0, "")

\* the Stage method each line of home() calls
HomeCall(line) ==
  CASE line \in {"h18", "h19"} -> Call("getNVVelocity", hmotor, 0, 0, 0, 0, "")
    [] line = "h20" -> Call("setVelocity", hmotor, hspeed.v, 0, 0, 0, "")
    [] line = "h21" -> Call("gotoPos", hmotor, 0 - MAX_MOTOR_POSITION, 0, 0, 0, "")
    [] line \in {"h23", "h25", "h35"} -> Call("getIdxStates", hmotor, 0, 0, 0, 0, "")
    [] line \in {"h26", "h36"} -> Call("getPos", hmotor, 0, 0, 0, 0, "")
    [] line = "h29" -> LimitFoundCall
    [] line = "h32" -> Call("setVelocity", hmotor, 1000, 0, 0, 0, "")
    [] line = "h33" -> Call("jog", hmotor, 5000, 0, 0, 0, "")
    [] line = "h39" -> InitCall
    [] line = "h45" -> Call("halt", hmotor, 1, 0, 0, 0, "")

\* the line after a call that returned
NextLine(line) ==
  CASE line = "h18" -> "h19"
    [] line = "h19" -> IF hspeed.v # ret[Main].n THEN "h20" ELSE "h21"
    [] line = "h20" -> "h21"
    [] line = "h21" -> "h23"
    [] line = "h23" -> "h24"
    [] line = "h25" -> "h26"
    [] line = "h26" -> "h28"
    [] line = "h29" -> "h31"
    [] line = "h32" -> "h33"
    [] line = "h33" -> "h34"
    [] line = "h35" -> "h36"
    [] line = "h36" -> "h38"
    [] line = "h39" -> "h40"
    [] line = "h45" -> "h48"

\* home() is left: by return, or by the exception exc
HomeExit(exc) ==
  /\ hpc' = "idle"
  /\ hwait' = FALSE
  /\ hexit' = exc

\* Controller.home(motor, speed) is called
home(motor, speed) ==
  /\ hpc = "idle"
  /\ pc[Main] = "idle"
  /\ hcalls < MaxHomeCalls
  /\ hcalls' = hcalls + 1
  /\ hpc' = "h18"
  /\ hwait' = FALSE
  /\ hmotor' = motor
  /\ hspeed' = speed
  /\ input2' = 0
  /\ intrAt' = "none"
  /\ hexit' = "none"
  /\ cur' = [cur EXCEPT ![Main] = NoSend]
  /\ meth' = [meth EXCEPT ![Main] = NoCall]
  /\ ret' = [ret EXCEPT ![Main] = NoRet]
  /\ trace' = [trace EXCEPT ![Main] = <<>>]
  /\ UNCHANGED <<connVars, lock, stageVars, pc, homed>>

\* line 18, speed given and truthy: speed = speed or ... keeps it without a query
HomeSpeedGiven ==
  /\ hpc = "h18"
  /\ hspeed.given /\ hspeed.v # 0
  /\ hpc' = "h19"
  /\ UNCHANGED <<connVars, lock, stageVars, pc, cur, meth, ret, trace, homed, hwait,
                 hmotor, hspeed, input2, intrAt, hexit, hcalls>>

\* a line of home() calls its Stage method
HomeCallMethod ==
  /\ hpc \in HomeCallLines
  /\ ~hwait
  /\ pc[Main] = "idle"
  /\ ~(hpc = "h18" /\ hspeed.given /\ hspeed.v # 0)
  /\ StartCall(Main, HomeCall(hpc))
  /\ hwait' = TRUE
  /\ UNCHANGED <<connVars, lock, stageVars, trace, homed, hpc, hmotor, hspeed, input2,
                 intrAt, hexit, hcalls>>

\* the Stage method raised: nothing but KeyboardInterrupt is caught, so home()
\* is left with that exception (also when the halt of the handler raised)
HomeMethodRaised ==
  /\ hwait
  /\ pc[Main] = "idle"
  /\ ret[Main].exc # "none"
  /\ HomeExit(ret[Main].exc)
  /\ UNCHANGED <<connVars, lock, stageVars, pc, cur, meth, ret, trace, homed, hmotor,
                 hspeed, input2, intrAt, hcalls>>

\* the Stage method returned: the line's assignment, then the next line;
\* getIdxStates(motor)[1] raises IndexError on a list shorter than two
HomeMethodReturned ==
  /\ hwait
  /\ pc[Main] = "idle"
  /\ ret[Main].exc = "none"
  /\ IF hpc \in {"h23", "h25", "h35"} /\ Len(ret[Main].l) < 2
       THEN /\ HomeExit("IndexError")
            /\ UNCHANGED <<hspeed, input2>>
       ELSE /\ hpc' = NextLine(hpc)
            /\ hwait' = FALSE
            /\ hspeed' = IF hpc = "h18" THEN [hspeed EXCEPT !.v = ret[Main].n] ELSE hspeed
            /\ input2' = IF hpc \in {"h23", "h25", "h35"} THEN ret[Main].l[2] ELSE input2
            /\ UNCHANGED hexit
  /\ UNCHANGED <<connVars, lock, stageVars, pc, cur, meth, ret, trace, homed, hmotor,
                 intrAt, hcalls>>

\* the polls made by the loop the main thread is in
Polls(line) ==
  LET first == IF line = "h24" THEN 1
               ELSE CHOOSE i \in 1..Len(trace[Main]) :
                      /\ trace[Main][i].op = "write"
                      /\ trace[Main][i].text[3] = "j"
      polled == {i \in first..Len(trace[Main]) :
                   trace[Main][i].op = "write" /\ trace[Main][i].text[3] = "p"
                     /\ Len(trace[Main][i].text) = 4}
  IN Cardinality(polled)

\* loops that both wait for the input to read 1
Awaited_AlwaysActive(line) == 1
\* the value the loop waits for: while input2 != 1: / while input2 != 0:
Awaited(line) == IF line = "h24" THEN 1 ELSE 0

\* the loop test: into the body while the input differs from the awaited value,
\* past the loop once it equals it
HomeLoopTest ==
  /\ hpc \in {"h24", "h34"}
  /\ IF input2 # Awaited(hpc)
       THEN /\ Polls(hpc) < MaxPolls
            /\ hpc' = IF hpc = "h24" THEN "h25" ELSE "h35"
       ELSE hpc' = IF hpc = "h24" THEN "h29" ELSE "h39"
  /\ UNCHANGED <<connVars, lock, stageVars, pc, cur, meth, ret, trace, homed, hwait,
                 hmotor, hspeed, input2, intrAt, hexit, hcalls>>

\* time.sleep(0.25) / time.sleep(0.1)
HomeSleep ==
  /\ hpc \in {"h28", "h31", "h38"}
  /\ hpc' = CASE hpc = "h28" -> "h24" [] hpc = "h31" -> "h32" [] hpc = "h38" -> "h34"
  /\ UNCHANGED <<connVars, lock, stageVars, pc, cur, meth, ret, trace, homed, hwait,
                 hmotor, hspeed, input2, intrAt, hexit, hcalls>>

\* self.homed = True
HomeSetHomed ==
  /\ hpc = "h40"
  /\ homed' = TRUE
  /\ hpc' = "h41"
  /\ UNCHANGED <<connVars, lock, stageVars, pc, cur, meth, ret, trace, hwait,
                 hmotor, hspeed, input2, intrAt, hexit, hcalls>>

\* print(f'Motor {motor} homed.') and the return
HomeReturn ==
  /\ hpc = "h41"
  /\ HomeExit("return")
  /\ UNCHANGED <<connVars, lock, stageVars, pc, cur, meth, ret, trace, homed, hmotor,
                 hspeed, input2, intrAt, hcalls>>

\* the handler, after its halt returned: raise
HomeReraise ==
  /\ hpc = "h48"
  /\ HomeExit("KeyboardInterrupt")
  /\ UNCHANGED <<connVars, lock, stageVars, pc, cur, meth, ret, trace, homed, hmotor,
                 hspeed, input2, intrAt, hcalls>>

\* a handler that re-raises without its halt
HandlerEntry_NoHalt == "h48"
\* except KeyboardInterrupt: the handler starts with self.s.halt(motor)
HandlerEntry == "h45"

\* a with block that keeps the lock when an exception passes through it
LockAfterUnwind_StillHeld == lock
\* with self._lock: the exception leaving the block releases the lock the main
\* thread holds
LockAfterUnwind == IF lock = Main THEN 0 ELSE lock

\* The user interrupt: KeyboardInterrupt is raised in the main thread wherever it
\* is inside the try of home(), also inside a Stage method or a locked section
\* (whose with block releases the lock as the exception passes); except
\* KeyboardInterrupt catches it.
Interrupt ==
  /\ hpc \in TryLines
  /\ intrAt' = hpc
  /\ hpc' = HandlerEntry
  /\ hwait' = FALSE
  /\ pc' = [pc EXCEPT ![Main] = "idle"]
  /\ lock' = LockAfterUnwind
  /\ UNCHANGED <<connVars, stageVars, cur, meth, ret, trace, homed, hmotor, hspeed,
                 input2, hexit, hcalls>>

\* The main thread, alone, calling home() on a Controller over a Stage built
\* with the default arguments.
InitHome ==
  /\ \E connected \in BOOLEAN : StageInit(620, TRUE, connected)
  /\ ControllerInit
  /\ ThreadsInit

NextHome ==
  \/ \E motor \in HomeMotors, speed \in HomeSpeeds : home(motor, speed)
  \/ HomeSpeedGiven
  \/ HomeCallMethod
  \/ HomeMethodRaised
  \/ HomeMethodReturned
  \/ HomeLoopTest
  \/ HomeSleep
  \/ HomeSetHomed
  \/ HomeReturn
  \/ HomeReraise
  \/ Interrupt
  \/ MethodReturn(Main)
  \/ Transport(Main)

SpecHome == InitHome /\ [][NextHome]_vars

\* The steps of the main thread inside home(): the interpreter runs the thread
\* on, whatever line or Stage method it is in, and the lock it may wait for
\* has no other taker; the caller's next home() and the user's interrupt are
\* under no such obligation.
HomeRuns ==
  \/ HomeSpeedGiven
  \/ HomeCallMethod
  \/ HomeMethodRaised
  \/ HomeMethodReturned
  \/ HomeLoopTest
  \/ HomeSleep
  \/ HomeSetHomed
  \/ HomeReturn
  \/ HomeReraise
  \/ MethodReturn(Main)
  \/ Transport(Main)

\* One home() call on a new Controller, which the user may interrupt, with
\* the main thread running on.
NextHomeOnce ==
  \/ \E motor \in HomeMotors, speed \in HomeSpeeds : hcalls = 0 /\ home(motor, speed)
  \/ HomeRuns
  \/ Interrupt

SpecHomeFair == InitHome /\ [][NextHomeOnce]_vars /\ WF_vars(HomeRuns)

\* ----------------------------------------------------- Controller.center
\* Controller.center(motor): if self.homed: self.s.gotoSetPoint(motor, 0);
\* nothing at all otherwise
center(motor) ==
  /\ hpc = "idle"
  /\ pc[Main] = "idle"
  /\ IF homed
       THEN /\ StartCall(Main, Call("gotoSetPoint", motor, 0, 0, 0, 0, ""))
            /\ trace' = [trace EXCEPT ![Main] = <<>>]
            /\ hpc' = "c52"
            /\ UNCHANGED <<connVars, lock, stageVars, homed, hwait, hmotor, hspeed,
                           input2, intrAt, hexit, hcalls>>
       ELSE UNCHANGED vars

\* gotoSetPoint returned or raised: so does center()
CenterReturn ==
  /\ hpc = "c52"
  /\ pc[Main] = "idle"
  /\ hpc' = "idle"
  /\ UNCHANGED <<connVars, lock, stageVars, pc, cur, meth, ret, trace, homed, hwait,
                 hmotor, hspeed, input2, intrAt, hexit, hcalls>>

\* The main thread calling home() and center() on one Controller.
NextCenter ==
  \/ NextHome
  \/ \E motor \in HomeMotors : center(motor)
  \/ CenterReturn

SpecCenter == InitHome /\ [][NextCenter]_vars

\* ================================================================= claims
Last(q) == q[Len(q)]
Ended(t) == pc[t] = "idle" /\ ret[t].exc # "pending"
InLocked(t) == pc[t] \in {"reset", "write", "read"}

\* C1: at most one thread is inside a locked section (between taking the lock
\* and leaving the with block: the query's reset / write / read, the command's
\* write) at a time, and the thread inside is the one the lock records.
C1_MutualExclusion ==
  \A t \in Threads :
    InLocked(t) => /\ lock = t
                   /\ \A u \in Threads \ {t} : ~InLocked(u)

\* C1 witness: a query is between its write and its read while the other thread
\* has passed the is-open check and waits for the lock.
C1_Witness ==
  \E t \in Threads, u \in Threads :
    /\ t # u
    /\ pc[t] = "read"
    /\ cur[t].kind = "query"
    /\ pc[u] = "lock"

\* C9: a thread that runs the is-open check of _send_command / _send_query while
\* the Stage has no handle, or a handle that is not open, raises the not-connected
\* error there, having made no transport call and without touching the lock.
C9_NotConnectedRaises ==
  [][\A t \in Threads :
       (pc[t] = "check" /\ ~Connected /\ pc'[t] # "check")
         => /\ pc'[t] = "idle"
            /\ ret'[t] = Raised("RuntimeError")
            /\ trace'[t] = <<>>
            /\ lock' = lock]_vars

\* C9 witness: a query ended with the not-connected error and no transport call
\* while the Stage held a handle that was closed but not yet released.
C9_Witness ==
  \E t \in Threads :
    /\ Ended(t)
    /\ cur[t].kind = "query"
    /\ ret[t].exc = "RuntimeError"
    /\ trace[t] = <<>>
    /\ ser # 0
    /\ ~is_open[ser]

\* C10 (as claimed): whenever the write of a _send_command or _send_query call
\* failed, the call ended with the communication error.
C10_WriteFailureIsConnectionError ==
  \A t \in Threads :
    (Ended(t) /\ trace[t] # <<>> /\ Last(trace[t]).op = "write" /\ ~Last(trace[t]).ok)
      => ret[t].exc = "ConnectionError"

\* the method call of the main thread and what it handed to the transport
TheCall == meth[Main]
Writes == SelectSeq(trace[Main], LAMBDA e : e.op = "write")
NoTransport == trace[Main] = <<>>
TakesMotor == TheCall.m \notin {"none", "raw", "getAddresses"}

\* C5 (as claimed): a call of any method taking a motor, with a motor outside
\* {0, 1, 2}, makes no transport call, and once ended has raised ValueError.
C5_InvalidMotorRejected ==
  (TakesMotor /\ TheCall.motor \notin {0, 1, 2})
    => /\ NoTransport
       /\ pc[Main] = "idle"
       /\ ret[Main].exc = "ValueError"

\* The setters of C6 with, for each, the opcode its command must carry, the
\* range of the parameter and the argument given.
C6_Checks(c) ==
  CASE c.m = "setSpeed" -> <<[op |-> "s", lo |-> 0, hi |-> 65535, v |-> c.a, sent |-> TRUE]>>
    [] c.m = "setNVSpeed" -> <<[op |-> "S", lo |-> 0, hi |-> 65535, v |-> c.a, sent |-> TRUE]>>
    [] c.m = "setAccel" -> <<[op |-> "a", lo |-> 0, hi |-> 65535, v |-> c.a, sent |-> TRUE]>>
    [] c.m = "setNVAccel" -> <<[op |-> "A", lo |-> 0, hi |-> 65535, v |-> c.a, sent |-> TRUE]>>
    [] c.m = "setVelocity" -> <<[op |-> "v", lo |-> 0, hi |-> 65535, v |-> c.a, sent |-> TRUE]>>
    [] c.m = "setHomingLoadError" ->
         <<[op |-> "I", lo |-> 1, hi |-> 65535, v |-> c.a, sent |-> TRUE]>>
    [] c.m = "gotoSetPoint" -> <<[op |-> "d", lo |-> 0, hi |-> 9, v |-> c.a, sent |-> TRUE]>>
    [] c.m = "setIdxConfig" -> <<[op |-> "Z", lo |-> 0, hi |-> 3, v |-> c.a, sent |-> TRUE]>>
    [] c.m = "setOutput" ->
         <<[op |-> IF c.a = 1 THEN "o" ELSE "n", lo |-> 1, hi |-> 2, v |-> c.a, sent |-> FALSE],
           [op |-> IF c.a = 1 THEN "o" ELSE "n", lo |-> 0, hi |-> 1, v |-> c.b, sent |-> TRUE]>>
    [] c.m = "setOutputConfig" ->
         <<[op |-> IF c.a = 1 THEN "J" ELSE "K", lo |-> 1, hi |-> 2, v |-> c.a, sent |-> FALSE],
           [op |-> IF c.a = 1 THEN "J" ELSE "K", lo |-> 0, hi |-> 3, v |-> c.b, sent |-> TRUE]>>
    [] c.m = "setInputConfig" ->
         <<[op |-> IF c.a = 1 THEN "T" ELSE IF c.a = 2 THEN "U" ELSE IF c.a = 3 THEN "V" ELSE "W",
            lo |-> 1, hi |-> 4, v |-> c.a, sent |-> FALSE],
           [op |-> IF c.a = 1 THEN "T" ELSE IF c.a = 2 THEN "U" ELSE IF c.a = 3 THEN "V" ELSE "W",
            lo |-> 0, hi |-> 3, v |-> c.b, sent |-> TRUE]>>
    [] OTHER -> <<>>

C6_InRange(c) == \A i \in 1..Len(C6_Checks(c)) :
  C6_Checks(c)[i].lo <= C6_Checks(c)[i].v /\ C6_Checks(c)[i].v <= C6_Checks(c)[i].hi

\* the write carries ':' motor opcode value '\r', the value read back as a number
Carries(e, motor, op, v) ==
  /\ Len(e.text) >= 5
  /\ e.text[1] = ":"
  /\ e.text[2] = Digit[motor + 1]
  /\ e.text[3] = op
  /\ Last(e.text) = term_char
  /\ AllDigits(SubSeq(e.text, 4, Len(e.text) - 1))
  /\ DigitsVal(SubSeq(e.text, 4, Len(e.text) - 1)) = v

\* C6: a ranged setter called on a valid motor with every ranged parameter
\* inside its range never raises ValueError and, on an open connection, hands
\* the transport exactly one write, which carries the value (a selector picks the
\* opcode); with a parameter one below or one above its range it raises
\* ValueError and makes no transport call.
C6_RangeEnds ==
  LET c == TheCall
      ch == C6_Checks(c)
  IN (ch # <<>> /\ c.motor \in {0, 1, 2}) =>
       IF C6_InRange(c)
         THEN /\ ret[Main].exc # "ValueError"
              /\ Len(trace[Main]) <= 1
              /\ (Ended(Main) /\ Connected) =>
                   /\ Len(trace[Main]) = 1
                   /\ trace[Main][1].op = "write"
                   /\ Carries(trace[Main][1], c.motor, ch[Len(ch)].op, ch[Len(ch)].v)
              /\ (Ended(Main) /\ ret[Main].exc = "none") => trace[Main][1].ok
         ELSE /\ pc[Main] = "idle"
              /\ ret[Main].exc = "ValueError"
              /\ NoTransport

\* C6 witness: setHomingLoadError at the low end of its range, 1, returned
\* after its one write.
C6_Witness ==
  /\ TheCall.m = "setHomingLoadError"
  /\ TheCall.a = 1
  /\ Ended(Main)
  /\ ret[Main].exc = "none"
  /\ Len(trace[Main]) = 1

\* round(amps / amps_per_step) stated as a property: the integer nearest to the
\* quotient, the even one of two equally near
IsRounded(k, amps) ==
  LET n == amps * amps_per_step.den
      d == amps_per_step.num
      dist(j) == IF n >= j * d THEN n - j * d ELSE j * d - n
  IN /\ \A j \in 0..((n \div d) + 1) : dist(k) <= dist(j)
     /\ \A j \in 0..((n \div d) + 1) : (j # k /\ dist(j) = dist(k)) => k % 2 = 0

\* floor(motor_max_current / amps_per_step) stated as a property
IsFloorOfMax(k) ==
  /\ k * amps_per_step.num <= motor_max_current * amps_per_step.den
  /\ (k + 1) * amps_per_step.num > motor_max_current * amps_per_step.den

\* v = min(round(amps / amps_per_step), floor(motor_max_current / amps_per_step), 31)
IsClamped(v, amps) ==
  \E r \in 0..(((amps * amps_per_step.den) \div amps_per_step.num) + 1),
     f \in 0..((motor_max_current * amps_per_step.den) \div amps_per_step.num) :
    /\ IsRounded(r, amps)
    /\ IsFloorOfMax(f)
    /\ v \in {r, f, CONTROLLER_MAX_CURRENT_VALUE}
    /\ v <= r /\ v <= f /\ v <= CONTROLLER_MAX_CURRENT_VALUE

CurrentCall ==
  /\ TheCall.m \in {"setHoldingCurr", "setRunCurr"}
  /\ TheCall.motor \in {0, 1, 2}
  /\ TheCall.a >= 0

\* the one write of a current setter carries the clamped raw value, in 0..31
TransmitsClamped ==
  /\ Len(trace[Main]) = 1
  /\ trace[Main][1].op = "write"
  /\ \E v \in 0..CONTROLLER_MAX_CURRENT_VALUE :
       /\ Carries(trace[Main][1], TheCall.motor,
                  IF TheCall.m = "setHoldingCurr" THEN "H" ELSE "R", v)
       /\ IsClamped(v, TheCall.a)
       /\ (motor_max_current = 620 /\ amps_per_step.num = 1000 /\ TheCall.a = 620) => v = 19

\* C7 (as claimed): every non-negative request, also one above the motor
\* maximum, is clamped and transmitted.
C7_EveryRequestClamped ==
  (CurrentCall /\ Ended(Main) /\ Connected) => TransmitsClamped

\* C7 (amended): a request from 0 up to the motor maximum is transmitted as
\* min(round(amps / amps_per_step), floor(motor_max_current / amps_per_step), 31),
\* which is in 0..31 (19 for 0.62 A with maximum 0.62 A and range 1.0 A); a
\* request above the motor maximum raises ValueError and nothing is transmitted.
C7_ClampedUpToMotorMax ==
  CurrentCall =>
    IF TheCall.a <= motor_max_current
      THEN /\ ret[Main].exc # "ValueError"
           /\ (Ended(Main) /\ Connected) => TransmitsClamped
      ELSE /\ pc[Main] = "idle"
           /\ ret[Main].exc = "ValueError"
           /\ NoTransport

\* C7 witness: with maximum 0.63 A and range 1.0 A a request of 0.63 A, which
\* rounds to 20, was transmitted (as the floor of the maximum, 19).
C7_Witness ==
  /\ CurrentCall
  /\ motor_max_current = 630
  /\ amps_per_step.num = 1000
  /\ TheCall.a = 630
  /\ Ended(Main)
  /\ ret[Main].exc = "none"
  /\ Len(trace[Main]) = 1

\* C8 (as claimed): amps_per_step is controller_current_range / 31
C8_AmpsPerStepFollowsRange ==
  /\ amps_per_step.num = controller_current_range
  /\ amps_per_step.den = CONTROLLER_MAX_CURRENT_VALUE

\* ---------------------------------------------------------------- home()
HaltFrame == Fmt(hmotor, "h", <<"1">>)
\* home() was interrupted and has been left
InterruptedExit == hpc = "idle" /\ intrAt # "none"
\* the handler's halt command reached Stage._send_command
HaltHanded ==
  /\ meth[Main].m = "halt"
  /\ cur[Main].kind = "command"
  /\ StartsWith(cur[Main].text, HaltFrame)
\* the halt commands written to the port with success during this home() call
HaltsTransmitted ==
  Len(SelectSeq(trace[Main], LAMBDA e :
        e.op = "write" /\ e.ok /\ e.text = HaltFrame \o <<term_char>>))

\* C2 (as claimed): whenever home() is left after a user interrupt, the halt
\* command of that motor was handed to the transport and the exception leaving
\* home() is the interrupt.
C2_InterruptHaltsAndReraises ==
  InterruptedExit => (HaltHanded /\ hexit = "KeyboardInterrupt")

\* C2 (amended): whenever home() is left after a user interrupt, with a motor
\* in {0, 1, 2} the halt command of that motor was handed to the transport
\* before anything left home(); the interrupt is what leaves home() exactly
\* when that halt returned, otherwise the halt's own error leaves it
\* (RuntimeError when not connected, ConnectionError when the write failed);
\* with a motor outside {0, 1, 2} the halt raised ValueError and no command
\* was handed over.
C2_HaltHandedBeforeAnythingPropagates ==
  InterruptedExit =>
    /\ check_motor_input(hmotor) => HaltHanded
    /\ ~check_motor_input(hmotor) => (~HaltHanded /\ hexit = "ValueError")
    /\ (hexit = "KeyboardInterrupt") <=> (ret[Main].exc = "none")
    /\ hexit = IF ret[Main].exc = "none" THEN "KeyboardInterrupt" ELSE ret[Main].exc
    /\ hexit \in {"KeyboardInterrupt", "RuntimeError", "ConnectionError", "ValueError"}
    /\ (hexit = "KeyboardInterrupt") =>
         (Last(trace[Main]) = Ev("write", HaltFrame \o <<term_char>>, TRUE))

\* C2 witness: home() was interrupted between the two reads of the stored
\* velocity, the halt was written, and the interrupt left home().
C2_Witness ==
  /\ InterruptedExit
  /\ intrAt = "h19"
  /\ HaltHanded
  /\ hexit = "KeyboardInterrupt"
  /\ HaltsTransmitted = 1

\* C3 (as claimed): whenever home() is left after a user interrupt delivered
\* in one of its polling loops, exactly one halt command was transmitted
\* during the call.
C3_ExactlyOneHalt ==
  (InterruptedExit /\ intrAt \in SeekLoopLines \cup BackOffLoopLines)
    => HaltsTransmitted = 1

\* C3 (amended): when home() is left by the re-raised interrupt, exactly one
\* halt command was transmitted if the interrupt came in the SeekingLimit loop,
\* and exactly two (the halt of line 29 and the handler's) if it came in the
\* BackingOff loop; when the handler's halt failed, one fewer.
C3_HaltsPerLoop ==
  InterruptedExit =>
    LET failed == IF hexit = "KeyboardInterrupt" THEN 0 ELSE 1 IN
      /\ intrAt \in SeekLoopLines => HaltsTransmitted = 1 - failed
      /\ intrAt \in BackOffLoopLines => HaltsTransmitted = 2 - failed

\* C3 witness: an interrupt during the sleep of the BackingOff loop, re-raised
\* after two halts were transmitted.
C3_Witness ==
  /\ InterruptedExit
  /\ intrAt = "h38"
  /\ hexit = "KeyboardInterrupt"
  /\ HaltsTransmitted = 2

\* C4 (as claimed): whenever home() was left by the user interrupt, the homed
\* flag is false.
C4_InterruptedIsNotHomed ==
  (hpc = "idle" /\ hexit = "KeyboardInterrupt") => ~homed

\* ------------------------------------------------ open_connection / close
\* C11 (as claimed): a call of open_connection in which creating the handle
\* fails returns without raising and leaves the Stage not connected with no
\* handle of the Stage open.
C11_FailedOpenLeavesNothingOpen ==
  [][\A t \in Threads :
       open_failed(t) => (pc'[t] = "idle" /\ NotConnected' /\ OpenHandles' = {})]_vars

\* C12 (as claimed): at most one handle created by the Stage is open.
C12_AtMostOneOpenHandle == Cardinality(OpenHandles) <= 1

\* C13: close_connection on a Stage that is not connected changes nothing and
\* raises nothing; on a connected Stage its first half closes the handle
\* self.ser refers to and its second half releases it, leaving the Stage not
\* connected (so that a second close changes nothing).
C13_CloseIdempotent ==
  [][\A t \in Threads :
       /\ (close_connection(t) /\ NotConnected) => UNCHANGED vars
       /\ (close_connection(t) /\ Connected) =>
            (ser' = ser /\ ~is_open'[ser] /\ pc'[t] = "close84")
       /\ close_release(t) => (ser' = 0 /\ NotConnected' /\ pc'[t] = "idle")]_vars

\* C13 witness: a thread is between the two halves of a close on an open
\* handle: the handle self.ser refers to was closed and is about to be released.
C13_Witness ==
  \E t \in Threads :
    /\ pc[t] = "close84"
    /\ ser # 0
    /\ ~is_open[ser]

\* ------------------------------------------------------------ wire format
\* ':' + motor + opcode + optional value + carriage return, the motor one of
\* 0, 1, 2 and the carriage return nowhere but last
WellFormedFrame(text) ==
  /\ Len(text) >= 4
  /\ text[1] = ":"
  /\ text[2] \in {"0", "1", "2"}
  /\ text[3] # term_char
  /\ text[Len(text)] = term_char
  /\ \A i \in 1..(Len(text) - 1) : text[i] # term_char

\* C14 (as claimed): everything a Stage method wrote to the port is a
\* well-formed frame.
C14_WireFormat ==
  \A i \in 1..Len(trace[Main]) :
    trace[Main][i].op = "write" => WellFormedFrame(trace[Main][i].text)

\* ------------------------------------------------------------ _send_query
QueryOrder == <<"reset", "write", "read">>

\* the transport actions of thread t's _send_query so far are, in this order,
\* reset_input_buffer, write of the terminated query, read; each was reached
\* only after the one before succeeded, and from the first of them until the
\* call ends the lock is held by t
QueryInOrder(t) ==
  cur[t].kind = "query" =>
    /\ Len(trace[t]) <= 3
    /\ \A i \in 1..Len(trace[t]) :
         /\ trace[t][i].op = QueryOrder[i]
         /\ i < Len(trace[t]) => trace[t][i].ok
         /\ trace[t][i].op = "write" => trace[t][i].text = cur[t].text
    /\ pc[t] \in {"check", "lock"} => trace[t] = <<>>
    /\ pc[t] \in {"reset", "write", "read"} => lock = t
    /\ (Ended(t) /\ ret[t].exc = "none") =>
         (Len(trace[t]) = 3 /\ trace[t][3].ok)

\* C15: in every _send_query call the transport actions are reset, write, read
\* in this order within one hold of the lock, which is given up only as the
\* call ends; and a read that timed out makes the call return the stripped
\* text that had arrived (possibly empty), releasing the lock, without raising.
C15_QueryOrderAndTimeout ==
  /\ [](\A t \in Threads : QueryInOrder(t))
  /\ [][\A t \in Threads :
          /\ (lock = t /\ lock' # t) => pc'[t] \in {"idle", "sent"}
          /\ (trace'[t] # trace[t] /\ trace'[t] # <<>>) => lock = t
          /\ (pc[t] = "read" /\ Connected) =>
               \A raw \in TimedOut(t) :
                 ReadReturns(t, raw) =>
                   /\ ret'[t] = Returned("str", 0, Strip(raw))
                   /\ lock' = 0
                   /\ pc'[t] \in {"idle", "sent"}]_vars

\* C15 witness: a _send_query call whose read timed out with nothing received
\* has returned the empty text after reset, write and read.
C15_Witness ==
  \E t \in Threads :
    /\ meth[t].m = "raw"
    /\ cur[t].kind = "query"
    /\ Ended(t)
    /\ ret[t] = Returned("str", 0, <<>>)
    /\ Len(trace[t]) = 3

\* --------------------------------------------------------------- decoding
\* the integers the device answers with
IntPayloads == {12345, 1, -7}
\* the Stage method called is one that returns int(response)
IntGetterCall == Plan(TheCall).exc = "none" /\ Plan(TheCall).parse = "int"

\* C16: when a getter that returns int(response) receives the text of an
\* integer n, alone or after the echoed query ':{motor}{opcode}', it returns n.
C16_EchoedAndBareDecode ==
  [][(MethodReturn(Main) /\ IntGetterCall /\ ret[Main].exc = "none") =>
       \A n \in IntPayloads :
         ret[Main].s \in {IntStr(n), Plan(TheCall).text \o IntStr(n)} =>
           ret'[Main] = Returned("int", n, <<>>)]_vars

\* C16 witness: getPos(1) has returned 12345.
C16_Witness ==
  /\ TheCall.m = "getPos"
  /\ TheCall.motor = 1
  /\ pc[Main] = "idle"
  /\ ret[Main] = Returned("int", 12345, <<>>)
  /\ Len(trace[Main]) = 3

\* the Stage method called is one of the getters returning a float
FloatGetterCall ==
  /\ TheCall.m \in {"getRPM", "getAbsPos", "getHoldingCurr", "getRunCurr"}
  /\ Plan(TheCall).exc = "none"

\* C17 (as claimed): when a getter returning a float receives the error token
\* '!', alone or after the echoed query, it returns not-a-number.
C17_ErrorTokenIsNaN ==
  [][(MethodReturn(Main) /\ FloatGetterCall /\ ret[Main].exc = "none"
        /\ ret[Main].s \in {<<"!">>, Plan(TheCall).text \o <<"!">>})
       => ret'[Main] = Returned("nan", 0, <<>>)]_vars

\* ------------------------------------------------- setDirection / setBaud
\* the call in progress hands the transport one write, ':{motor}{op}{v}' and
\* the terminator, and does not raise ValueError
TransmitsCode(op, v) ==
  /\ ret[Main].exc # "ValueError"
  /\ Len(trace[Main]) <= 1
  /\ (Ended(Main) /\ Connected) =>
       /\ Len(trace[Main]) = 1
       /\ trace[Main][1].op = "write"
       /\ Carries(trace[Main][1], TheCall.motor, op, v)
       /\ Len(trace[Main][1].text) = 5
  /\ (Ended(Main) /\ ret[Main].exc = "none") => trace[Main][1].ok
\* the call in progress raised ValueError without a transport call
Rejected ==
  /\ pc[Main] = "idle"
  /\ ret[Main].exc = "ValueError"
  /\ NoTransport
DirectionCall == TheCall.m = "setDirection" /\ TheCall.motor \in {0, 1, 2}

\* C18 (as claimed): setDirection transmits C0 for "CW", C1 for "CCW", and
\* rejects every other string without a transmission.
C18_DirectionExact ==
  DirectionCall =>
    IF TheCall.s = "CW" THEN TransmitsCode("C", 0)
    ELSE IF TheCall.s = "CCW" THEN TransmitsCode("C", 1)
    ELSE Rejected

\* C18 (amended): setDirection compares the upper-cased string: "CW" in any
\* letter case transmits C0, "CCW" in any letter case transmits C1, and every
\* other string is rejected with ValueError without a transmission.
C18_DirectionAnyCase ==
  DirectionCall =>
    IF TheCall.s \in {"CW", "cw"} THEN TransmitsCode("C", 0)
    ELSE IF TheCall.s \in {"CCW", "ccw", "Ccw"} THEN TransmitsCode("C", 1)
    ELSE Rejected

\* C18 witness: setDirection(1, "Ccw") returned after writing ':1C1'.
C18_Witness ==
  /\ TheCall.m = "setDirection"
  /\ TheCall.s = "Ccw"
  /\ Ended(Main)
  /\ ret[Main].exc = "none"
  /\ trace[Main] = <<Ev("write", <<":", "1", "C", "1", "\r">>, TRUE)>>

\* the device codes of the baud rates
BaudTable == <<9600, 19200, 38400, 57600, 115200>>

\* C19: setBaud on a valid motor transmits ':{motor}B{code}' with code 1..5
\* for 9600, 19200, 38400, 57600, 115200, and rejects every other integer
\* with ValueError without a transmission.
C19_BaudCodes ==
  (TheCall.m = "setBaud" /\ TheCall.motor \in {0, 1, 2}) =>
    IF \E k \in 1..5 : BaudTable[k] = TheCall.a
      THEN TransmitsCode("B", CHOOSE k \in 1..5 : BaudTable[k] = TheCall.a)
      ELSE Rejected

\* C19 witness: setBaud(1, 115200) returned after writing ':1B5'.
C19_Witness ==
  /\ TheCall.m = "setBaud"
  /\ TheCall.a = 115200
  /\ Ended(Main)
  /\ ret[Main].exc = "none"
  /\ trace[Main] = <<Ev("write", <<":", "1", "B", "5", "\r">>, TRUE)>>

\* ------------------------------------------------------- home(), in order
HomeFrame(op, value) == Fmt(hmotor, op, value) \o <<term_char>>
MoveFrame == HomeFrame("p", IntStr(0 - MAX_MOTOR_POSITION))
IdxFrame == HomeFrame("l", <<>>)
PollFrames == {IdxFrame, HomeFrame("p", <<>>)}
PreFrames == {HomeFrame("v", <<>>), HomeFrame("v", IntStr(hspeed.v))}

\* what home() wrote is: the reads (and possibly the setting) of the velocity;
\* the move to -MAX_MOTOR_POSITION; polls, the first one of the inputs; the
\* halt; velocity 1000; jog 5000; polls, the first one of the inputs; the
\* init command, last; and every write succeeded
HomeSequence ==
  LET n == Len(Writes) IN
    /\ \A i \in 1..n : Writes[i].ok
    /\ \E iMove, iHalt \in 1..n :
         /\ iMove + 1 < iHalt
         /\ iHalt + 3 < n
         /\ \A i \in 1..(iMove - 1) : Writes[i].text \in PreFrames
         /\ Writes[iMove].text = MoveFrame
         /\ Writes[iMove + 1].text = IdxFrame
         /\ \A i \in (iMove + 1)..(iHalt - 1) : Writes[i].text \in PollFrames
         /\ Writes[iHalt].text = HaltFrame \o <<term_char>>
         /\ Writes[iHalt + 1].text = HomeFrame("v", IntStr(1000))
         /\ Writes[iHalt + 2].text = HomeFrame("j", IntStr(5000))
         /\ Writes[iHalt + 3].text = IdxFrame
         /\ \A i \in (iHalt + 3)..(n - 1) : Writes[i].text \in PollFrames
         /\ Writes[n].text = HomeFrame("i", <<"1">>)

\* C20: a home() call that returned wrote the move, polls, halt, velocity
\* 1000, jog 5000, polls and init in this order; the halt follows a poll that
\* read input 2 as 1 and the init one that read it as 0; and homed turns true
\* only at line 40, right after the init command was written, being false
\* throughout a first home() call until then.
C20_HomeSequence ==
  /\ []((hpc = "idle" /\ hexit = "return") => (HomeSequence /\ input2 = 0 /\ homed))
  /\ [](hpc \in {"h29", "h31", "h32", "h33"} => input2 = 1)
  /\ [](hpc \in {"h39", "h40", "h41"} => input2 = 0)
  /\ []((hcalls = 1 /\ hpc \in TryLines \ {"h41"}) => ~homed)
  /\ [][(~homed /\ homed') =>
          /\ hpc = "h40"
          /\ Writes # <<>>
          /\ Last(Writes) = Ev("write", HomeFrame("i", <<"1">>), TRUE)]_vars

\* C20 witness: home(1) returned after the shortest run: two reads of the
\* velocity, move, one poll reading 1, halt, velocity, jog, one pair of polls
\* reading 0, init.
C20_Witness ==
  /\ hpc = "idle"
  /\ hexit = "return"
  /\ hmotor = 1
  /\ homed
  /\ Len(Writes) = 10
  /\ Writes[3].text = MoveFrame

\* C21 (as claimed): in a home() call the halt of line 29 is written right
\* after a poll of the inputs, with no other command or query written between.
C21_HaltRightAfterInputPoll ==
  intrAt = "none" =>
    \A i \in 1..Len(Writes) :
      Writes[i].text = HaltFrame \o <<term_char>> =>
        (i > 1 /\ Writes[i - 1].text = IdxFrame)

\* ---------------------------------------------------------------- center()
\* C22 (as claimed): while only one home() call was ever made, center(motor)
\* hands a command to the transport only if that call set homed and was for
\* the same motor, and what it writes is one ':{motor}d0'.
C22_CenterOnlyForHomedMotor ==
  (hpc = "c52" /\ hcalls <= 1 /\ cur[Main].kind # "none") =>
    /\ homed
    /\ meth[Main].motor = hmotor
    /\ Len(trace[Main]) <= 1
    /\ \A i \in 1..Len(trace[Main]) :
         trace[Main][i].text = Fmt(hmotor, "d", <<"0">>) \o <<term_char>>

\* ------------------------------------------------------- home(), the speed
\* line 19 has just read the stored velocity and chosen between lines 20 and 21
AtSpeedDecision ==
  /\ hpc \in {"h20", "h21"}
  /\ ~hwait
  /\ pc[Main] = "idle"
  /\ intrAt = "none"
  /\ meth[Main].m = "getNVVelocity"
  /\ ret[Main].exc = "none"
\* the speed argument: line 18 queries the device only when it is None or 0,
\* so after two queries a given speed was 0
SpeedArgument == IF Len(Writes) = 2 THEN 0 ELSE hspeed.v
\* the set-velocity commands written so far
VelocityWrites ==
  SelectSeq(Writes, LAMBDA e : e.text[3] = "v" /\ Len(e.text) > 4)

\* C23 (as claimed): with a stored velocity that reads the same each time,
\* home() goes on to send set-velocity when a speed was given and differs from
\* the stored velocity, and goes straight to the move when the speed was
\* omitted or equals it; the set-velocity sent is the only one and carries the
\* speed.
C23_SetVelocityWhenDifferent ==
  /\ (AtSpeedDecision /\ (Len(Writes) = 2 => hspeed.v = ret[Main].n)) =>
       IF hspeed.given /\ SpeedArgument # ret[Main].n
         THEN hpc = "h20"
         ELSE hpc = "h21"
  /\ (hpc = "h21" /\ ~hwait /\ intrAt = "none" /\ meth[Main].m = "setVelocity"
        /\ ret[Main].exc = "none") =>
       VelocityWrites = <<Ev("write", HomeFrame("v", IntStr(hspeed.v)), TRUE)>>

\* -------------------------------------------------------------- setMSteps
\* C24 (as claimed): setMSteps on a valid motor hands the transport one write
\* ':{motor}M{microsteps}' for every value from 2 to 256, and rejects every
\* other integer with ValueError without a transmission.
C24_MicrostepsRange ==
  (TheCall.m = "setMSteps" /\ TheCall.motor \in {0, 1, 2}) =>
    IF TheCall.a \in 2..256
      THEN /\ ret[Main].exc # "ValueError"
           /\ Len(trace[Main]) <= 1
           /\ (Ended(Main) /\ Connected) =>
                /\ Len(trace[Main]) = 1
                /\ trace[Main][1].op = "write"
                /\ Carries(trace[Main][1], TheCall.motor, "M", TheCall.a)
      ELSE Rejected

\* ------------------------------------------------- home(): halt on every exit
\* the seek move of this home() call was written to the port with success
MoveTransmitted ==
  \E i \in 1..Len(trace[Main]) :
    /\ trace[Main][i].op = "write"
    /\ trace[Main][i].ok
    /\ trace[Main][i].text = MoveFrame
\* a write of the motor's halt was made on the port after the move (a write
\* that the port refused counts: the halt was at least attempted)
HaltAfterMove ==
  \E i, j \in 1..Len(trace[Main]) :
    /\ i < j
    /\ trace[Main][i].op = "write" /\ trace[Main][i].ok
    /\ trace[Main][i].text = MoveFrame
    /\ trace[Main][j].op = "write"
    /\ trace[Main][j].text = HaltFrame \o <<term_char>>

\* C25 (as claimed): whenever home() has been left, by return or by any
\* exception, after its seek move was transmitted, a halt of that motor was
\* written to the port after the move.
C25_HaltOnEveryExit ==
  (hpc = "idle" /\ hexit # "none" /\ MoveTransmitted) => HaltAfterMove

\* ------------------------------------------- close_connection and the lock
\* C26 (as claimed): close_connection takes no effect while another thread is
\* inside the locked section: a query that has written and has yet to read
\* finds the handle it wrote on still there and open, and a thread that
\* passed the is-open check makes its write on an open handle.
C26_CloseExcludedFromLockedSection ==
  /\ [](\A t \in Threads : pc[t] = "read" => Connected)
  /\ [][\A t \in Threads : (pc[t] = "write" /\ pc'[t] # "write") => Connected]_vars

\* ------------------------------------------------ the lock on every exit
\* C27: the lock is released on every way out of _send_command and
\* _send_query (return, write or read failure, an interrupt while it is held):
\* whenever the lock is held, the thread holding it is inside a locked
\* section, a call that ended does not hold it, and the halt of the interrupt
\* handler, waiting for the lock on the same thread, finds it free.
C27_LockReleasedOnEveryExit ==
  /\ \A t \in Threads : lock = t => InLocked(t)
  /\ \A t \in Threads : Ended(t) => lock # t
  /\ (hpc = "h45" /\ pc[Main] = "lock") => lock = 0

\* C27 witness: the interrupt arrived between the write and the read of an
\* input poll (its write is the last event), and the handler's halt has taken
\* the lock and is about to write.
C27_Witness ==
  /\ hpc = "h45"
  /\ intrAt \in SeekLoopLines
  /\ meth[Main].m = "halt"
  /\ pc[Main] = "write"
  /\ lock = Main
  /\ trace[Main] # <<>>
  /\ Last(trace[Main]).op = "write"
  /\ Last(trace[Main]).text = IdxFrame

\* ------------------------------------------------- home(): termination
\* home() was left by its return with the flag set
HomedReturn == hpc = "idle" /\ hexit = "return" /\ homed
\* something other than the device's answers ended the run of home(): the
\* user interrupted it, or a Stage call did not complete and its exception
\* left home()
Disturbed ==
  \/ intrAt # "none"
  \/ hpc = "idle" /\ hexit \notin {"none", "return"}
\* the input has not read the awaited value in any of the polls of the loop
Starved ==
  /\ hpc \in {"h24", "h34"}
  /\ input2 # Awaited(hpc)
  /\ Polls(hpc) >= MaxPolls
\* a loop polls again only after a poll that did not read the awaited value,
\* and is left only with the awaited value read
ExitsAtFirstAwaited ==
  /\ hpc = "h25" => input2 # 1
  /\ hpc = "h35" => input2 # 0
  /\ hpc \in {"h29", "h31", "h32", "h33"} => input2 = 1
  /\ hpc \in {"h39", "h40", "h41"} => input2 = 0
\* the polls of the position this home() call has written
PositionPolls ==
  Len(SelectSeq(trace[Main], LAMBDA e :
        e.op = "write" /\ e.ok /\ e.text = HomeFrame("p", <<>>)))

\* C28: a home() call whose Stage calls all complete, that is not interrupted
\* and whose input reads 1 in a poll after the seek move and 0 in a poll after
\* the jog, ends by its return with homed true; and each polling loop is left
\* at the first poll that reads the awaited value, never polling again after it.
C28_HomeTerminates ==
  /\ []ExitsAtFirstAwaited
  /\ (hpc = "h18") ~> (HomedReturn \/ Disturbed \/ Starved)

\* C28 witness: home() returned with homed true after both loops went through
\* their body (two polls of the position were written).
C28_Witness == HomedReturn /\ PositionPolls >= 2 /\ intrAt = "none"

\* ------------------------------------------------------------ setCurrRange
\* the range command of the call was written to the port, and _send_command
\* returned into setCurrRange
RangeHanded ==
  /\ meth[Main].m = "setCurrRange"
  /\ pc[Main] = "sent"
  /\ ret[Main].exc = "none"
  /\ trace[Main] = <<Ev("write", Fmt(meth[Main].motor, "O", IntStr(meth[Main].a))
                                   \o <<term_char>>, TRUE)>>

\* C29: controller_current_range changes only in the step of setCurrRange that
\* follows the return of _send_command for the range command (to 2.0 A for
\* value 0, to 1.0 A for value 1); in every other step, so whenever the
\* validation or the send failed, controller_current_range and amps_per_step
\* keep their values.
C29_RangeOnlyAfterSend ==
  [][IF RangeHanded
       THEN controller_current_range' =
              IF meth[Main].a = 0 THEN CONTROLLER_CURRENT_RANGE ELSE LOW_CURRENT_RANGE
       ELSE /\ controller_current_range' = controller_current_range
            /\ amps_per_step' = amps_per_step]_vars

\* C29 witness: a setCurrRange call has returned and the cached range is no
\* longer the one the Stage was built with (which amps_per_step still shows).
C29_Witness ==
  /\ TheCall.m = "setCurrRange"
  /\ Ended(Main)
  /\ ret[Main].exc = "none"
  /\ controller_current_range # amps_per_step.num

====
